---- MODULE Spec2Model ----
(***************************************************************************)
(* PipelineRtpDatagramProtocol (homeassistant/components/voip/voip.py):    *)
(* one VoIP call.  The transport delivers audio chunks through on_chunk,   *)
(* a background task _run_pipeline feeds the utterance stream stt_stream   *)
(* (built on _segment_audio) to the pipeline engine, the engine reports    *)
(* lifecycle events through _event_callback and synthesized audio is sent  *)
(* back by _send_media tasks.                                              *)
(*                                                                         *)
(* The event loop is single threaded: every action below is the code that  *)
(* runs between two suspension points (await / yield) of one task or one   *)
(* callback.                                                               *)
(***************************************************************************)
EXTENDS Integers, Sequences, FiniteSets, TLC

\* ------------------------------------------------------------------ bounds
\* Capacity of the look-back deque.  The source sets 100 (voip.py:31); the
\* model keeps the deque semantics and scales the capacity.
BUFFERED_CHUNKS_BEFORE_SPEECH == 2
\* Number of on_chunk deliveries in one call.
MaxChunks == 4
\* Number of pipeline runs started in one call.
MaxRuns == 2
\* Number of lifecycle events the engine reports in one call.
MaxEvents == 2
\* Number of _send_media tasks created in one call.
MaxMedia == 1

\* The calls explored: up to MaxChunks chunks when the engine reports no
\* event, and one chunk for each run when it reports up to MaxEvents events.
WithinBounds(chunks, events) ==
    /\ chunks <= MaxChunks
    /\ events <= MaxEvents
    /\ events = 0 \/ chunks <= MaxRuns

\* ------------------------------------------------------------------ values
None == "None"
\* The task object returned by async_create_background_task.
Task == "task"
\* The transport object handed to connection_made.
Transport == "transport"
\* b"": the one chunk value that is falsy in `while chunk:`.
EMPTY == 0
\* A non-empty chunk is named by its arrival number: distinct chunks have
\* distinct contents, so order, loss and duplication are observable.
Chunks == 0..MaxChunks
ConvIds == {"abc123", "xyz789"}

VARIABLES
    audio_queue,      \* self._audio_queue, oldest first
    pipeline_task,    \* self._pipeline_task: None or Task
    conversation_id,  \* self._conversation_id
    transport,        \* self.transport: None or Transport
    conn,             \* the transport object: "init", "open", "closing", "lost"
    is_active,        \* voip_device.is_active
    close_calls,      \* number of transport.close() invocations
    runs,             \* run id -> the _run_pipeline task and its stt_stream
    delivered,        \* history: <<chunk, run id>> of every on_chunk call
    n_events,         \* history: number of _event_callback calls
    last_intent_end,  \* history: id carried by the most recent INTENT_END
                      \* event that has a payload, None before any
    media,            \* _send_media tasks: [created, resolving]
    audio_sent        \* history of the _send_media tasks: [dropped, open,
                      \* closed], the tasks that returned early and the
                      \* send_audio calls by the state of the transport

vars == <<audio_queue, pipeline_task, conversation_id, transport, conn,
          is_active, close_calls, runs, delivered, n_events,
          last_intent_end, media, audio_sent>>

\* The variables that record what happened and that no code reads.
history == <<delivered, n_events, last_intent_end>>

\* ----------------------------------------------------------------- helpers
Front(s) == SubSeq(s, 1, Len(s) - 1)

Started == DOMAIN runs
Active == {r \in Started : runs[r].pc # "done"}
\* The generator is suspended at a yield inside stt_stream's try block.
AtYield(r) == runs[r].gen \in {"yield_buffered", "yield_chunk"}
TransportClosed == transport = None \/ conn # "open"
\* The _send_media tasks created so far.
MediaTasks ==
    media.created + media.resolving
        + audio_sent.dropped + audio_sent.open + audio_sent.closed

\* The task object created by async_create_background_task(_run_pipeline()).
\* fed, emitted, stream_end, exit and drained are history: the chunks given to
\* the segmenter with its answers, the chunks yielded, how the stream and the
\* task ended, and whether on_chunk found chunks in the queue when it
\* created the task (kept until the task runs for the first time).
NewRun ==
    [pc |-> "created", conversation_id |-> None,
     gen |-> "unstarted", segmenter |-> None, chunk_buffer |-> <<>>,
     idx |-> 0, chunk |-> EMPTY,
     fed |-> <<>>, emitted |-> <<>>, stream_end |-> "none", exit |-> "none",
     drained |-> FALSE]

\* A finished task is released when the next one is created: its record
\* keeps only whether its stream still waits to be finalized.
Released(run) ==
    IF run.pc = "done"
    THEN [NewRun EXCEPT !.pc = "done",
                        !.gen = IF run.gen \in {"yield_buffered", "yield_chunk"}
                                THEN "yield_chunk" ELSE "done"]
    ELSE run

\* ------------------------------------------------------ VoiceCommandSegmenter
\* segmenter.process(chunk): the possible results in a given state, as the
\* contract of the segmenter states them.  ret is the value returned,
\* in_command is read from the new state.
SegmenterProcess(state) ==
    CASE state = "not_started" ->
            {[state |-> "not_started", ret |-> TRUE],
             [state |-> "in_command", ret |-> TRUE]}
      [] state = "in_command" ->
            {[state |-> "in_command", ret |-> TRUE],
             [state |-> "command_ended", ret |-> FALSE]}
      [] OTHER -> {[state |-> "command_ended", ret |-> FALSE]}

in_command(state) == state = "in_command"

\* ------------------------------------------------------------ pure pieces
\* Faulty variant: the call has one segmenter, made for its first run; a
\* later run finds it where the run before left it, at the end of a command.
NewSegmenter_Reused(r) == IF r > 1 THEN "command_ended" ELSE "not_started"

\* segmenter = VoiceCommandSegmenter() at the start of _segment_audio: the
\* state of the segmenter that run r constructs.
NewSegmenter(r) == "not_started"

\* Faulty variant: a plain list, nothing is ever evicted.
DequeAppend_Unbounded(buf, c) == Append(buf, c)

\* Faulty variant: a full buffer refuses the new chunk and keeps the oldest.
DequeAppend_KeepsOldest(buf, c) ==
    IF Len(buf) >= BUFFERED_CHUNKS_BEFORE_SPEECH
    THEN buf
    ELSE Append(buf, c)

\* deque(maxlen=N).append: the oldest element is evicted when full.
DequeAppend(buf, c) ==
    IF Len(buf) >= BUFFERED_CHUNKS_BEFORE_SPEECH
    THEN Append(Tail(buf), c)
    ELSE Append(buf, c)

\* Faulty variant: the buffer is not emptied after its release.
ClearedBuffer_Kept(buf) == buf

\* chunk_buffer.clear() after the buffered chunks were yielded.
ClearedBuffer(buf) == <<>>

\* Faulty variant: the buffer is released newest first.
BufferedChunk_NewestFirst(buf, i) == buf[Len(buf) - i + 1]

\* `for buffered_chunk in chunk_buffer`: the i-th chunk released.
BufferedChunk(buf, i) == buf[i]

\* Faulty variant: the queue is left as it is.
_clear_audio_queue_Kept(q) == q

\* _clear_audio_queue: get_nowait until empty.
_clear_audio_queue(q) == <<>>

\* Faulty variant: the queue is cleared in the audio-timeout handler of
\* stt_stream, not in its finally clause.
QueueAfterStreamEnd_TimeoutOnly(how, q) ==
    IF how = "timeout" THEN _clear_audio_queue(q) ELSE q

\* `finally: self._clear_audio_queue()` of stt_stream: the queue once the
\* stream has ended, for each way it ends ("command_ended", "empty_chunk",
\* "timeout", "cancelled", "closed").
QueueAfterStreamEnd(how, q) == _clear_audio_queue(q)

\* Faulty variant: on_chunk starts a run for every chunk.
TaskIsNone_Always(task) == TRUE

\* `if self._pipeline_task is None` of on_chunk.
TaskIsNone(task) == task = None

\* Faulty variant: the chunk is put at the head of the queue.
PutNowait_Front(q, c) == <<c>> \o q

\* put_nowait(audio_bytes), the last statement of on_chunk.
PutNowait(q, c) == Append(q, c)

\* `while chunk:` of _segment_audio.
Truthy(c) == c # EMPTY

\* Faulty variant: the audio-timeout handler closes the transport but keeps
\* the reference to it.
CloseOnAudioTimeout_KeepsReference(t, n, c) ==
    IF t # None
    THEN <<t, n + 1, IF c = "open" THEN "closing" ELSE c>>
    ELSE <<t, n, c>>

\* Faulty variant: the audio-timeout handler does not hang up.
CloseOnAudioTimeout_Skipped(t, n, c) == <<t, n, c>>

\* Faulty variant: the pipeline-timeout handler closes without the None test.
CloseOnPipelineTimeout_Unchecked(t, n, c) ==
    <<None, n + 1, IF c = "open" THEN "closing" ELSE c>>

\* `if self.transport is not None: close(); self.transport = None` of the
\* audio-timeout handler in stt_stream: new <<transport, close_calls, conn>>.
CloseOnAudioTimeout(t, n, c) ==
    IF t # None
    THEN <<None, n + 1, IF c = "open" THEN "closing" ELSE c>>
    ELSE <<t, n, c>>

\* The same statements in the pipeline-timeout handler of _run_pipeline.
CloseOnPipelineTimeout(t, n, c) ==
    IF t # None
    THEN <<None, n + 1, IF c = "open" THEN "closing" ELSE c>>
    ELSE <<t, n, c>>

\* Faulty variant: the slot is released on return and on timeout only.
SlotAfterExit_KeptOnFailure(how, task) ==
    IF how = "failed" THEN task ELSE None

\* `finally: self._pipeline_task = None` of _run_pipeline, for each way the
\* try block is left: "returned", "failed", "pipeline_timeout".
SlotAfterExit(how, task) == None

\* conversation_id=self._conversation_id in the engine invocation.
InvokedConversationId(cid) == cid

\* Faulty variant: only the first conversation id is captured.
StoredConversationId_FirstOnly(event, cid) ==
    IF event.data = None \/ cid # None THEN cid
    ELSE IF event.type = "INTENT_END" THEN event.data
    ELSE cid

\* _event_callback: the new value of self._conversation_id.
StoredConversationId(event, cid) ==
    IF event.data = None THEN cid
    ELSE IF event.type = "INTENT_END" THEN event.data
    ELSE cid

\* Faulty variant: a TTS_END event schedules the transmission whether or not
\* it carries a payload.
SchedulesSendMedia_AnyTtsEnd(event) ==
    event.type = "TTS_END"

\* _event_callback: whether a _send_media task is created.
SchedulesSendMedia(event) ==
    event.data # None /\ event.type = "TTS_END"

\* `if self.transport is None: return` at the top of _send_media.
SendMediaReturnsEarly(t) == t = None

\* ------------------------------------------------------------------- Init
Init ==
    /\ audio_queue = <<>>
    /\ pipeline_task = None
    /\ conversation_id = None
    /\ transport = None
    /\ conn = "init"
    /\ is_active = FALSE
    /\ close_calls = 0
    /\ runs = <<>>
    /\ delivered = <<>>
    /\ n_events = 0
    /\ last_intent_end = None
    /\ media = [created |-> 0, resolving |-> 0]
    /\ audio_sent = [dropped |-> 0, open |-> 0, closed |-> 0]

\* ------------------------------------------------------------- transport
connection_made ==
    /\ conn = "init"
    /\ conn' = "open"
    /\ transport' = Transport
    /\ is_active' = TRUE
    /\ UNCHANGED <<audio_queue, pipeline_task, conversation_id, close_calls,
                   runs, history, media, audio_sent>>

\* Faulty variant: the callback forgets to tell the device that the call is
\* over.
connection_lost_StaysActive ==
    /\ conn = "closing"
    /\ conn' = "lost"
    /\ UNCHANGED <<audio_queue, pipeline_task, conversation_id, transport,
                   is_active, close_calls, runs, history, media, audio_sent>>

\* Called by the event loop some time after transport.close().
connection_lost ==
    /\ conn = "closing"
    /\ conn' = "lost"
    /\ is_active' = FALSE
    /\ UNCHANGED <<audio_queue, pipeline_task, conversation_id, transport,
                   close_calls, runs, history, media, audio_sent>>

\* ---------------------------------------------------------------- on_chunk
\* Faulty variant: the chunk is put in the queue before the queue is
\* drained, so the chunk that starts a run is lost with the stale ones.
on_chunk_DrainsAfterPut(c) ==
    /\ conn = "open"
    /\ WithinBounds(Len(delivered) + 1, n_events)
    /\ IF TaskIsNone(pipeline_task)
       THEN /\ Len(runs) < MaxRuns
            /\ runs' = Append([r \in DOMAIN runs |-> Released(runs[r])],
                               [NewRun EXCEPT !.drained = audio_queue # <<>>])
            /\ pipeline_task' = Task
            /\ audio_queue' = _clear_audio_queue(PutNowait(audio_queue, c))
       ELSE /\ audio_queue' = PutNowait(audio_queue, c)
            /\ UNCHANGED <<runs, pipeline_task>>
    /\ delivered' = Append(delivered, <<c, Len(runs')>>)
    /\ UNCHANGED <<conversation_id, transport, conn, is_active, close_calls,
                   n_events, last_intent_end, media, audio_sent>>

\* A connected transport delivers audio_bytes.
on_chunk(c) ==
    /\ conn = "open"
    /\ WithinBounds(Len(delivered) + 1, n_events)
    /\ IF TaskIsNone(pipeline_task)
       THEN /\ Len(runs) < MaxRuns
            /\ runs' = Append([r \in DOMAIN runs |-> Released(runs[r])],
                               [NewRun EXCEPT !.drained = audio_queue # <<>>])
            /\ pipeline_task' = Task
            /\ audio_queue' = PutNowait(_clear_audio_queue(audio_queue), c)
       ELSE /\ audio_queue' = PutNowait(audio_queue, c)
            /\ UNCHANGED <<runs, pipeline_task>>
    /\ delivered' = Append(delivered, <<c, Len(runs')>>)
    /\ UNCHANGED <<conversation_id, transport, conn, is_active, close_calls,
                   n_events, last_intent_end, media, audio_sent>>

OnChunk ==
    \E c \in {EMPTY, Len(delivered) + 1} : on_chunk(c)

\* ----------------------------------------------------------- _run_pipeline
\* The task created by on_chunk runs for the first time: it enters the
\* pipeline timeout and invokes the engine with the stored conversation id.
RunStart(r) ==
    /\ runs[r].pc = "created"
    /\ runs' = [runs EXCEPT ![r].pc = "engine",
                            ![r].drained = FALSE,
                            ![r].conversation_id =
                                InvokedConversationId(conversation_id)]
    /\ UNCHANGED <<audio_queue, pipeline_task, conversation_id, transport,
                   conn, is_active, close_calls, history, media, audio_sent>>

\* The engine asks stt_stream for its next chunk; the generator resumes
\* from where it was suspended and runs to its next await or yield.
EnginePull(r) ==
    /\ runs[r].pc = "engine"
    /\ \/ /\ runs[r].gen = "unstarted"
          /\ runs' = [runs EXCEPT ![r].gen = "get",
                                  ![r].segmenter = NewSegmenter(r),
                                  ![r].chunk_buffer = <<>>]
       \/ /\ runs[r].gen = "yield_buffered"
          /\ IF runs[r].idx < Len(runs[r].chunk_buffer)
             THEN runs' = [runs EXCEPT
                    ![r].idx = @ + 1,
                    ![r].emitted = Append(@,
                        BufferedChunk(runs[r].chunk_buffer, runs[r].idx + 1))]
             ELSE runs' = [runs EXCEPT
                    ![r].idx = 0,
                    ![r].chunk_buffer = ClearedBuffer(@),
                    ![r].gen = "yield_chunk",
                    ![r].emitted = Append(@, runs[r].chunk)]
       \/ /\ runs[r].gen = "yield_chunk"
          /\ runs' = [runs EXCEPT ![r].gen = "get"]
    /\ UNCHANGED <<audio_queue, pipeline_task, conversation_id, transport,
                   conn, is_active, close_calls, history, media, audio_sent>>

\* Faulty variant: every chunk is yielded as long as the command goes on,
\* whether or not it has started.
EmittedAfter_Unbuffered(run, c, res) ==
    IF res.ret THEN Append(run.emitted, c) ELSE run.emitted

\* The chunks stt_stream has yielded once _segment_audio has given chunk c
\* to the segmenter with result res: nothing when the command is finished,
\* nothing while the command has not started, else the oldest buffered
\* chunk if there is one, else the chunk itself.
EmittedAfter(run, c, res) ==
    IF ~res.ret THEN run.emitted
    ELSE IF ~in_command(res.state) THEN run.emitted
    ELSE IF run.chunk_buffer # <<>>
    THEN Append(run.emitted, BufferedChunk(run.chunk_buffer, 1))
    ELSE Append(run.emitted, c)

\* Faulty variant: the loop does not break when process returns false; the
\* chunk is handled like any chunk outside a command and the loop goes on.
AfterProcess_NoBreak(run, c, res) ==
    LET seen == [run EXCEPT !.segmenter = res.state,
                            !.chunk = c,
                            !.fed = Append(@, <<c, res.state>>),
                            !.emitted = EmittedAfter(run, c, res)]
    IN  IF in_command(res.state)
        THEN IF run.chunk_buffer # <<>>
             THEN [seen EXCEPT !.gen = "yield_buffered", !.idx = 1]
             ELSE [seen EXCEPT !.gen = "yield_chunk"]
        ELSE [seen EXCEPT !.chunk_buffer = DequeAppend(@, c)]

\* The body of `while chunk:` for the chunk c taken from the queue and the
\* segmenter's result res, up to the next yield, get() or the end.
AfterProcess(run, c, res) ==
    LET seen == [run EXCEPT !.segmenter = res.state,
                            !.chunk = c,
                            !.fed = Append(@, <<c, res.state>>),
                            !.emitted = EmittedAfter(run, c, res)]
    IN  IF ~res.ret
        THEN [seen EXCEPT !.gen = "done", !.stream_end = "command_ended"]
        ELSE IF in_command(res.state)
        THEN IF run.chunk_buffer # <<>>
             THEN [seen EXCEPT !.gen = "yield_buffered", !.idx = 1]
             ELSE [seen EXCEPT !.gen = "yield_chunk"]
        ELSE [seen EXCEPT !.chunk_buffer = DequeAppend(@, c)]

\* `await self._audio_queue.get()` returns a chunk and the loop body runs.
\* When the stream ends here, stt_stream's finally clears the queue.
GetChunk(r) ==
    /\ runs[r].pc = "engine"
    /\ runs[r].gen = "get"
    /\ audio_queue # <<>>
    /\ LET c == Head(audio_queue) IN
       IF ~Truthy(c)
       THEN /\ runs' = [runs EXCEPT ![r].chunk = c,
                                    ![r].gen = "done",
                                    ![r].stream_end = "empty_chunk"]
            /\ audio_queue' = QueueAfterStreamEnd("empty_chunk",
                                                  Tail(audio_queue))
       ELSE \E res \in SegmenterProcess(runs[r].segmenter) :
              /\ runs' = [runs EXCEPT ![r] = AfterProcess(runs[r], c, res)]
              /\ audio_queue' = IF runs'[r].gen = "done"
                                THEN QueueAfterStreamEnd(
                                         runs'[r].stream_end, Tail(audio_queue))
                                ELSE Tail(audio_queue)
    /\ UNCHANGED <<pipeline_task, conversation_id, transport, conn,
                   is_active, close_calls, history, media, audio_sent>>

\* async_timeout.timeout(self.audio_timeout) expires while the generator
\* waits in get(): stt_stream catches the TimeoutError, hangs up, clears the
\* queue and ends.
AudioTimeout(r) ==
    /\ runs[r].pc = "engine"
    /\ runs[r].gen = "get"
    /\ LET after == CloseOnAudioTimeout(transport, close_calls, conn) IN
       /\ transport' = after[1]
       /\ close_calls' = after[2]
       /\ conn' = after[3]
    /\ audio_queue' = QueueAfterStreamEnd("timeout", audio_queue)
    /\ runs' = [runs EXCEPT ![r].gen = "done", ![r].stream_end = "timeout"]
    /\ UNCHANGED <<pipeline_task, conversation_id, is_active, history, media, audio_sent>>

\* Faulty variant: the hang-up sits in the handler's finally clause, so a run
\* that returns or fails closes the transport as a timed-out run does.
EngineExit_HangsUp(r, how) ==
    /\ runs[r].pc = "engine"
    /\ runs[r].gen # "get"
    /\ runs' = [runs EXCEPT ![r].pc = "done", ![r].exit = how]
    /\ pipeline_task' = None
    /\ transport' = CloseOnPipelineTimeout(transport, close_calls, conn)[1]
    /\ close_calls' = CloseOnPipelineTimeout(transport, close_calls, conn)[2]
    /\ conn' = CloseOnPipelineTimeout(transport, close_calls, conn)[3]
    /\ UNCHANGED <<audio_queue, conversation_id, is_active, history, media,
                   audio_sent>>

\* The engine returns (how = "returned") or raises (how = "failed").  It
\* can do neither while it awaits the next chunk of the stream.
EngineExit(r, how) ==
    /\ runs[r].pc = "engine"
    /\ runs[r].gen # "get"
    /\ runs' = [runs EXCEPT ![r].pc = "done", ![r].exit = how]
    /\ pipeline_task' = SlotAfterExit(how, pipeline_task)
    /\ UNCHANGED <<audio_queue, conversation_id, transport, conn, is_active,
                   close_calls, history, media, audio_sent>>

EngineReturn(r) == EngineExit(r, "returned")
EngineFail(r) == EngineExit(r, "failed")

\* async_timeout.timeout(self.pipeline_timeout) expires: the task is
\* cancelled where it waits.  If that is inside get(), the cancellation
\* passes through stt_stream, whose finally clears the queue.
PipelineTimeout(r) ==
    /\ runs[r].pc = "engine"
    /\ IF runs[r].gen = "get"
       THEN /\ runs' = [runs EXCEPT ![r].pc = "done",
                                    ![r].exit = "pipeline_timeout",
                                    ![r].gen = "done",
                                    ![r].stream_end = "cancelled"]
            /\ audio_queue' = QueueAfterStreamEnd("cancelled", audio_queue)
       ELSE /\ runs' = [runs EXCEPT ![r].pc = "done",
                                    ![r].exit = "pipeline_timeout"]
            /\ UNCHANGED audio_queue
    /\ LET after == CloseOnPipelineTimeout(transport, close_calls, conn) IN
       /\ transport' = after[1]
       /\ close_calls' = after[2]
       /\ conn' = after[3]
    /\ pipeline_task' = SlotAfterExit("pipeline_timeout", pipeline_task)
    /\ UNCHANGED <<conversation_id, is_active, history, media, audio_sent>>

\* A stream the engine left suspended at a yield is closed by the event
\* loop's asynchronous-generator finalizer once the run is over:
\* GeneratorExit is raised at the yield and stt_stream's finally runs.
FinalizeStream(r) ==
    /\ runs[r].pc = "done"
    /\ AtYield(r)
    /\ runs' = [runs EXCEPT ![r].gen = "done", ![r].stream_end = "closed"]
    /\ audio_queue' = QueueAfterStreamEnd("closed", audio_queue)
    /\ UNCHANGED <<pipeline_task, conversation_id, transport, conn,
                   is_active, close_calls, history, media, audio_sent>>

\* --------------------------------------------------------- _event_callback
Events ==
    [type : {"INTENT_END"}, data : ConvIds \cup {None}]
        \cup [type : {"TTS_END", "STT_END"}, data : {"payload", None}]

_event_callback(r, event) ==
    /\ runs[r].pc = "engine"
    /\ WithinBounds(Len(delivered), n_events + 1)
    /\ SchedulesSendMedia(event) => MediaTasks < MaxMedia
    /\ n_events' = n_events + 1
    /\ last_intent_end' = IF event.type = "INTENT_END" /\ event.data # None
                          THEN event.data
                          ELSE last_intent_end
    /\ conversation_id' = StoredConversationId(event, conversation_id)
    /\ media' = IF SchedulesSendMedia(event)
                THEN [media EXCEPT !.created = @ + 1]
                ELSE media
    /\ UNCHANGED <<audio_queue, pipeline_task, transport, conn, is_active,
                   close_calls, runs, delivered, audio_sent>>

EventCallback == \E r \in Started, event \in Events : _event_callback(r, event)

\* ------------------------------------------------------------- _send_media
\* The task starts: it returns at once without a transport, else it awaits
\* the media source.
SendMediaStart ==
    /\ media.created > 0
    /\ IF SendMediaReturnsEarly(transport)
       THEN /\ media' = [media EXCEPT !.created = @ - 1]
            /\ audio_sent' = [audio_sent EXCEPT !.dropped = @ + 1]
       ELSE /\ media' = [media EXCEPT !.created = @ - 1, !.resolving = @ + 1]
            /\ UNCHANGED audio_sent
    /\ UNCHANGED <<audio_queue, pipeline_task, conversation_id, transport,
                   conn, is_active, close_calls, runs, history>>

\* The media source answers and the task calls send_audio.
SendMediaWrite ==
    /\ media.resolving > 0
    /\ media' = [media EXCEPT !.resolving = @ - 1]
    /\ audio_sent' = IF TransportClosed
                     THEN [audio_sent EXCEPT !.closed = @ + 1]
                     ELSE [audio_sent EXCEPT !.open = @ + 1]
    /\ UNCHANGED <<audio_queue, pipeline_task, conversation_id, transport,
                   conn, is_active, close_calls, runs, history>>

\* ------------------------------------------------------------------- Next
RunExit == \E r \in Started : EngineReturn(r) \/ EngineFail(r) \/ PipelineTimeout(r)

Next ==
    \/ connection_made
    \/ connection_lost
    \/ OnChunk
    \/ \E r \in Started : RunStart(r)
    \/ \E r \in Started : EnginePull(r)
    \/ \E r \in Started : GetChunk(r)
    \/ \E r \in Started : AudioTimeout(r)
    \/ \E r \in Started : EngineReturn(r)
    \/ \E r \in Started : EngineFail(r)
    \/ \E r \in Started : PipelineTimeout(r)
    \/ \E r \in Started : FinalizeStream(r)
    \/ EventCallback
    \/ SendMediaStart
    \/ SendMediaWrite

Spec == Init /\ [][Next]_vars

\* The event loop runs every task that is ready, and each run is bounded by
\* the pipeline timeout: a started run is entered and is left.
LiveSpec ==
    /\ Spec
    /\ WF_vars(\E r \in Started : RunStart(r))
    /\ WF_vars(RunExit)

TypeOK ==
    /\ audio_queue \in Seq(Chunks)
    /\ pipeline_task \in {None, Task}
    /\ conversation_id \in ConvIds \cup {None}
    /\ transport \in {None, Transport}
    /\ conn \in {"init", "open", "closing", "lost"}
    /\ is_active \in BOOLEAN
    /\ close_calls \in 0..(MaxRuns + 1)
    /\ Len(runs) <= MaxRuns

\* ============================================================== properties
\* What the histories say about run r.
FedChunks(r) == [i \in 1..Len(runs[r].fed) |-> runs[r].fed[i][1]]
FedStates(r) == [i \in 1..Len(runs[r].fed) |-> runs[r].fed[i][2]]
DeliveredTo(r) ==
    LET mine == SelectSeq(delivered, LAMBDA d : d[2] = r)
    IN  [i \in 1..Len(mine) |-> mine[i][1]]
\* Number of chunks of run r the segmenter saw before the command started.
PreSpeech(r) ==
    Cardinality({i \in 1..Len(runs[r].fed) : runs[r].fed[i][2] = "not_started"})
NoCommand(r) == PreSpeech(r) = Len(runs[r].fed)
Min(a, b) == IF a < b THEN a ELSE b

\* C1: at most one _run_pipeline task is active in every reachable state,
\* and while one is active _pipeline_task is set, so on_chunk cannot start
\* another.
C1_MutualExclusion ==
    /\ Cardinality(Active) <= 1
    /\ Active # {} => pipeline_task = Task

\* A burst: three chunks were delivered to the second run of the call
\* before its task ran for the first time.
C1_Witness ==
    /\ Len(runs) = 2
    /\ runs[2].pc = "created"
    /\ Len(DeliveredTo(2)) >= 3
    /\ Len(audio_queue) >= 3

\* C2: a run-slot that is taken is released: on every exit path of the run
\* the call returns to Idle.
C2_SlotReleased == (pipeline_task # None) ~> (pipeline_task = None)

\* A run whose stream ended with the audio timeout and whose engine then
\* failed has released the slot.
C2_Witness ==
    \E r \in Started :
        /\ runs[r].stream_end = "timeout"
        /\ runs[r].exit = "failed"
        /\ pipeline_task = None

\* C3: the step in which the pipeline timeout ends a run leaves the
\* transport closed by exactly one close() of the call and the slot free.
C3_PipelineTimeoutCloses ==
    [][\A r \in Started :
          (runs[r].pc = "engine" /\ runs'[r].exit = "pipeline_timeout")
              => /\ close_calls' = 1
                 /\ transport' = None
                 /\ pipeline_task' = None]_vars

\* The pipeline timeout ended a run whose stream had not timed out, and it
\* closed the transport itself.
C3_Witness ==
    \E r \in Started :
        /\ runs[r].exit = "pipeline_timeout"
        /\ runs[r].stream_end \in {"none", "cancelled"}
        /\ close_calls = 1
        /\ conn = "closing"
        /\ transport = None
        /\ pipeline_task = None

\* C4 as stated: after a call of silent chunks only that ended with the
\* audio timeout, no pipeline run was started and close() was never invoked.
C4_SilentCallUntouched ==
    \A r \in Started :
        (runs[r].stream_end = "timeout" /\ runs[r].fed # <<>> /\ NoCommand(r))
            => (close_calls = 0 /\ \A q \in Started : runs[q].pc = "created")

\* C4 as amended: the silent chunks were all delivered to the one run their
\* first chunk started, the stream ends with the audio timeout without
\* having emitted a chunk, and the transport was closed by one close().
C4_SilentCallHangsUp ==
    \A r \in Started :
        (runs[r].stream_end = "timeout" /\ runs[r].fed # <<>> /\ NoCommand(r))
            => /\ runs[r].pc # "created"
               /\ \A i \in 1..Len(delivered) :
                    (\E j \in 1..Len(runs[r].fed) :
                        runs[r].fed[j][1] = delivered[i][1]) => delivered[i][2] = r
               /\ runs[r].emitted = <<>>
               /\ close_calls = 1
               /\ transport = None

\* Three silent chunks, then the audio timeout.
C4_Witness ==
    \E r \in Started :
        /\ runs[r].stream_end = "timeout"
        /\ Len(runs[r].fed) >= 3
        /\ NoCommand(r)
        /\ runs[r].emitted = <<>>
        /\ close_calls = 1
        /\ conn = "closing"

C6_LookBackFlush ==
    \A r \in Started :
        LET k == PreSpeech(r) IN
        (Len(runs[r].fed) > k /\ k <= BUFFERED_CHUNKS_BEFORE_SPEECH)
        => /\ \A i \in 1..Min(Len(runs[r].emitted), k + 1) :
                runs[r].emitted[i] = runs[r].fed[i][1]
           /\ runs[r].idx = 0 => Len(runs[r].emitted) >= k + 1

\* The command started after two pre-speech chunks and the three chunks
\* have been emitted.
C6_Witness ==
    \E r \in Started :
        /\ PreSpeech(r) = 2
        /\ Len(runs[r].fed) = 3
        /\ runs[r].gen = "yield_chunk"
        /\ runs[r].emitted = FedChunks(r)

\* C7: as long as no chunk of a run was in-command the stream has emitted
\* nothing, and after the audio timeout it is over with the pre-speech
\* chunks still in the look-back buffer, never emitted.
C7_SilenceEmitsNothing ==
    \A r \in Started :
        NoCommand(r)
        => /\ runs[r].emitted = <<>>
           /\ runs[r].stream_end = "timeout"
                => /\ runs[r].gen = "done"
                   /\ Len(runs[r].chunk_buffer) =
                        Min(Len(runs[r].fed), BUFFERED_CHUNKS_BEFORE_SPEECH)

\* Two pre-speech chunks were buffered when the audio timeout fired.
C7_Witness ==
    \E r \in Started :
        /\ runs[r].stream_end = "timeout"
        /\ NoCommand(r)
        /\ Len(runs[r].chunk_buffer) = 2
        /\ runs[r].emitted = <<>>

\* C8: the stored conversation id is at every moment the one carried by the
\* most recent INTENT_END event with a payload (no other step changes it),
\* and a run that starts passes the stored id to the engine.
C8_ConversationId ==
    [][/\ conversation_id' = last_intent_end'
       /\ \A r \in Started :
            (runs[r].pc = "created" /\ runs'[r].pc = "engine")
                => runs'[r].conversation_id = last_intent_end]_vars

\* After two events in the first run, the second run was invoked with the
\* id the later INTENT_END carried.
C8_Witness ==
    /\ Len(runs) = 2
    /\ runs[2].pc = "engine"
    /\ n_events = 2
    /\ last_intent_end = "abc123"
    /\ runs[2].conversation_id = "abc123"

\* C9 as stated: send_audio is never called once the transport is closed.
C9_NoAudioAfterClose == audio_sent.closed = 0

\* C10: the step in which the audio timeout ends the stream leaves the
\* transport closed (by a close() if it was still set) and the queue empty.
C10_AudioTimeoutHangsUp ==
    [][\A r \in Started :
          (runs[r].gen = "get" /\ runs'[r].stream_end = "timeout")
              => /\ transport' = None
                 /\ conn' # "open"
                 /\ transport # None => close_calls' = close_calls + 1
                 /\ audio_queue' = <<>>
                 /\ runs'[r].gen = "done"]_vars

\* The audio timeout fired in the first run while a delivered chunk had not
\* been taken from the queue; the queue is empty and the transport closing.
C10_Witness ==
    /\ Len(runs) = 1
    /\ runs[1].stream_end = "timeout"
    /\ runs[1].pc = "engine"
    /\ Len(DeliveredTo(1)) > Len(runs[1].fed)
    /\ EMPTY \notin {delivered[i][1] : i \in 1..Len(delivered)}
    /\ audio_queue = <<>>
    /\ transport = None
    /\ conn = "closing"


\* C11: transport.close() is called only in a step in which the audio
\* timeout ends a run's stream or the pipeline timeout ends a run; the step
\* in which a run returns or fails leaves the transport as it was.
C11_CloseOnlyOnTimeout ==
    [][/\ close_calls' # close_calls
            => \E r \in Started :
                  \/ runs[r].gen = "get" /\ runs'[r].stream_end = "timeout"
                  \/ runs[r].pc = "engine"
                       /\ runs'[r].exit = "pipeline_timeout"
       /\ \A r \in Started :
             (runs[r].pc = "engine" /\ runs'[r].exit \in {"returned", "failed"})
                 => UNCHANGED <<transport, conn, close_calls>>]_vars

\* The first run's stream ended on the segmenter's signal, the engine failed,
\* and the call is still up for the next utterance.
C11_Witness ==
    /\ Len(runs) = 1
    /\ runs[1].stream_end = "command_ended"
    /\ runs[1].exit = "failed"
    /\ pipeline_task = None
    /\ transport = Transport
    /\ conn = "open"
    /\ close_calls = 0


\* C12 as stated: a stream that ended of itself (neither cancelled by the
\* pipeline timeout nor closed after the engine left it) ended because the
\* segmenter signalled the end of the command or because the audio timeout
\* fired; no chunk value taken from the queue ends it.
C12_EndsOnlyOnSignalOrTimeout ==
    \A r \in Started :
        runs[r].stream_end \notin {"none", "cancelled", "closed"}
            => runs[r].stream_end \in {"command_ended", "timeout"}


\* C13 as stated: in every state is_active is true exactly when the
\* transport is connected, also after the supervisor closed it on a timeout.
C13_ActiveIffConnected == is_active <=> conn = "open"

\* C13: is_active is true exactly from connection_made until the event loop
\* delivers connection_lost, so it stays true between the supervisor's
\* close() and that callback and is false once the callback has run.
C13_ActiveUntilConnectionLost == is_active <=> conn \in {"open", "closing"}

\* The supervisor closed the transport on a timeout and the event loop has
\* not delivered connection_lost yet: the device is still active.
C13_Witness ==
    /\ close_calls = 1
    /\ transport = None
    /\ conn = "closing"
    /\ is_active


\* C14: a step in which _event_callback handles an event without payload, or
\* of a type other than INTENT_END and TTS_END, leaves the conversation id,
\* the run slot, the queue, the transport, the runs and the scheduled and
\* performed transmissions unchanged.
C14_IgnoredEventChangesNothing ==
    [][\A r \in Started : \A event \in Events :
          LET ignored == \/ event.data = None
                         \/ event.type \notin {"INTENT_END", "TTS_END"}
          IN  (ignored /\ _event_callback(r, event))
                  => UNCHANGED <<conversation_id, pipeline_task, audio_queue,
                                 transport, conn, is_active, close_calls,
                                 runs, media, audio_sent>>]_vars

\* Two events were handled and none of them stored a conversation id or
\* scheduled a transmission.
C14_Witness ==
    /\ n_events = 2
    /\ last_intent_end = None
    /\ conversation_id = None
    /\ media = [created |-> 0, resolving |-> 0]
    /\ audio_sent = [dropped |-> 0, open |-> 0, closed |-> 0]
    /\ pipeline_task = Task
    /\ transport = Transport


\* C15: in every reachable state the look-back buffer of a run holds at most
\* BUFFERED_CHUNKS_BEFORE_SPEECH chunks.
C15_BufferBounded ==
    \A r \in Started :
        Len(runs[r].chunk_buffer) <= BUFFERED_CHUNKS_BEFORE_SPEECH

\* More pre-speech chunks than the buffer holds were appended and the buffer
\* is full.
C15_Witness ==
    \E r \in Started :
        /\ NoCommand(r)
        /\ Len(runs[r].fed) > BUFFERED_CHUNKS_BEFORE_SPEECH
        /\ Len(runs[r].chunk_buffer) = BUFFERED_CHUNKS_BEFORE_SPEECH

\* C16: when the command starts on the chunk after k > N pre-speech chunks,
\* the chunks emitted so far agree one by one with the last N pre-speech
\* chunks followed by the onset chunk, all N + 1 are emitted once the release
\* of the buffer is over, and none of the k - N oldest is ever emitted.
C16_EvictedLookBack ==
    \A r \in Started :
        LET k == PreSpeech(r)
            N == BUFFERED_CHUNKS_BEFORE_SPEECH
        IN
        (Len(runs[r].fed) > k /\ k > N)
        => /\ \A i \in 1..Min(Len(runs[r].emitted), N + 1) :
                runs[r].emitted[i] = runs[r].fed[k - N + i][1]
           /\ runs[r].idx = 0 => Len(runs[r].emitted) >= N + 1
           /\ \A i \in 1..(k - N) : \A j \in 1..Len(runs[r].emitted) :
                runs[r].emitted[j] # runs[r].fed[i][1]

\* The command started on the chunk after N + 1 pre-speech chunks; the last
\* N of them and the onset chunk have been emitted, the first has not.
C16_Witness ==
    \E r \in Started :
        /\ PreSpeech(r) = BUFFERED_CHUNKS_BEFORE_SPEECH + 1
        /\ Len(runs[r].fed) = PreSpeech(r) + 1
        /\ runs[r].gen = "yield_chunk"
        /\ runs[r].emitted = Tail(FedChunks(r))


\* C17: once the segmenter of a run has reported in_command and the release
\* of the look-back buffer is over (idx is 0 again) the buffer is empty and
\* stays so, and the chunks emitted by a run are emitted in the order of
\* their arrival, none of them twice.
C17_FlushedOnce ==
    \A r \in Started :
        /\ (~NoCommand(r) /\ runs[r].idx = 0) => runs[r].chunk_buffer = <<>>
        /\ \A i, j \in 1..Len(runs[r].emitted) :
              i < j => runs[r].emitted[i] < runs[r].emitted[j]

\* The buffer held a chunk when the command started; it was released, and
\* two in-command chunks have been emitted after it with the buffer empty.
C17_Witness ==
    \E r \in Started :
        /\ PreSpeech(r) = 1
        /\ FedStates(r) = <<"not_started", "in_command", "in_command">>
        /\ runs[r].emitted = FedChunks(r)
        /\ runs[r].chunk_buffer = <<>>
        /\ runs[r].gen = "yield_chunk"


\* C18: the chunk for which process returned false is the last chunk the
\* run's segmenter was given and the last the run took from the queue; the
\* generator is finished, and what it has emitted are chunks given to the
\* segmenter before that one.
C18_NothingAfterCommandEnd ==
    \A r \in Started :
        \A i \in 1..Len(runs[r].fed) :
            runs[r].fed[i][2] = "command_ended"
            => /\ i = Len(runs[r].fed)
               /\ runs[r].chunk = runs[r].fed[i][1]
               /\ runs[r].gen = "done"
               /\ runs[r].stream_end = "command_ended"
               /\ \A j \in 1..Len(runs[r].emitted) :
                     \E h \in 1..(i - 1) :
                         runs[r].emitted[j] = runs[r].fed[h][1]

\* The command of the first run ended on its second chunk; two more chunks
\* were delivered to the run afterwards and the run is over.
C18_Witness ==
    /\ Len(runs) = 1
    /\ FedStates(1) = <<"in_command", "command_ended">>
    /\ runs[1].emitted = <<runs[1].fed[1][1]>>
    /\ Len(DeliveredTo(1)) = 4
    /\ runs[1].pc = "done"


\* C19: whatever happened in the call before, a run that waits for its first
\* chunk has a segmenter in not_started and an empty look-back buffer, the
\* first result of its segmenter is one that not_started allows, and every
\* chunk it buffers or emits was delivered during this run.
C19_FreshSegmenterAndBuffer ==
    \A r \in Started :
        /\ (runs[r].gen = "get" /\ runs[r].fed = <<>>)
              => /\ runs[r].segmenter = "not_started"
                 /\ runs[r].chunk_buffer = <<>>
        /\ runs[r].fed # <<>>
              => \E res \in SegmenterProcess("not_started") :
                    runs[r].fed[1][2] = res.state
        /\ \A i \in 1..Len(runs[r].chunk_buffer) :
              \E d \in 1..Len(delivered) :
                  delivered[d] = <<runs[r].chunk_buffer[i], r>>
        /\ \A i \in 1..Len(runs[r].emitted) :
              \E d \in 1..Len(delivered) :
                  delivered[d] = <<runs[r].emitted[i], r>>

\* The second run of a call gave its first chunk to its segmenter, which was
\* in not_started and stayed there, and the chunk is alone in the buffer.
C19_Witness ==
    /\ Len(runs) = 2
    /\ runs[1].pc = "done"
    /\ FedStates(2) = <<"not_started">>
    /\ runs[2].chunk_buffer = FedChunks(2)
    /\ runs[2].emitted = <<>>


\* C20: the step in which on_chunk creates a run leaves in the queue the
\* chunk of that call and nothing else, and a run's segmenter is only ever
\* given chunks that were delivered since the run was created.
C20_QueueAfterRunStart ==
    [][/\ Len(runs') > Len(runs)
            => /\ audio_queue' = <<delivered'[Len(delivered')][1]>>
               /\ delivered'[Len(delivered')][2] = Len(runs')
       /\ \A r \in DOMAIN runs' :
             \A i \in 1..Len(runs'[r].fed) :
                 \E d \in 1..Len(delivered') :
                     delivered'[d] = <<runs'[r].fed[i][1], r>>]_vars

\* on_chunk has just created the second run of the call: chunks of the first
\* run were still in the queue and only the new chunk is there now.
C20_Witness ==
    /\ Len(runs) = 2
    /\ runs[2].pc = "created"
    /\ runs[2].drained
    /\ Len(DeliveredTo(2)) = 1
    /\ audio_queue = DeliveredTo(2)
    /\ audio_queue # <<EMPTY>>


\* C21: transport.close() is invoked at most once in a call, and once it has
\* been invoked the reference to the transport is None.
C21_ClosedAtMostOnce ==
    /\ close_calls <= 1
    /\ close_calls = 1 => transport = None

\* The audio timeout ended the stream of the first run and closed the
\* transport; the pipeline timeout then ended the same run without closing
\* it again.
C21_Witness ==
    /\ Len(runs) = 1
    /\ runs[1].stream_end = "timeout"
    /\ runs[1].exit = "pipeline_timeout"
    /\ close_calls = 1
    /\ transport = None


\* C22: the step in which the stream of a run ends, whichever way it ends,
\* leaves the queue empty and the generator finished.
C22_QueueEmptyAtStreamEnd ==
    [][\A r \in Started :
          (runs[r].stream_end = "none" /\ runs'[r].stream_end # "none")
              => /\ audio_queue' = <<>>
                 /\ runs'[r].gen = "done"]_vars

\* The stream of the first run ended on the segmenter's signal while a
\* delivered chunk had not been taken from the queue; the queue is empty.
C22_Witness ==
    /\ Len(runs) = 1
    /\ runs[1].stream_end = "command_ended"
    /\ runs[1].pc = "engine"
    /\ Len(DeliveredTo(1)) > Len(runs[1].fed)
    /\ EMPTY \notin {delivered[i][1] : i \in 1..Len(delivered)}
    /\ audio_queue = <<>>
    /\ transport = Transport

====
